---- MODULE Spec2Model ----
(***************************************************************************)
(* TalkEngine: the run / reset state machine of talkengine/engine.py with  *)
(* the interaction handlers of nlu_pipeline/interaction_handlers.py.       *)
(*                                                                         *)
(* Conventions.  An Optional[T] value is a sequence of length 0 (None) or  *)
(* 1 (the value).  A Python str that is parsed (the user query) is a       *)
(* sequence of one-character strings; every other text is a TLA+ string.   *)
(* A dict over parameter names is a function on ParamNames whose absent    *)
(* keys map to Absent.  A confidence is an integer number of tenths.       *)
(*                                                                         *)
(* InteractionLogEntry and NLUResult are the values run constructs: a log  *)
(* entry has the fields stage, prompt and response (engine.py:370-374), a  *)
(* result the fields command, parameters, artifacts and the interactions   *)
(* and response_text of its conversation_detail (engine.py:819-824).       *)
(*                                                                         *)
(* The collaborators (classifier, extractor, executable, text generator)   *)
(* are nondeterministic: each call returns one of the values of its        *)
(* interface or raises.  calls records what each invocation was given and  *)
(* what it did; steps records the steps the loop of run executed.          *)
(*                                                                         *)
(* Spec is the engine constructed with the catalog and the overrides of    *)
(* the test suite.  SpecDefaultIntentDetection is the same engine without  *)
(* a classifier override, so that DefaultIntentDetection classifies.       *)
(* SpecContextWrites adds the application writing interaction_mode, as     *)
(* the tests do, SpecInteractionWrites the application setting up a whole  *)
(* interaction.  SpecConstruction starts before the constructor and calls  *)
(* it and reset with every configuration; a constructor or reset argument  *)
(* is given by the types and texts the validation looks at.  SpecResets    *)
(* is Spec with reset also called with malformed configurations.           *)
(* SpecDefaultTextGeneration is the engine without a text generator        *)
(* override, so that DefaultTextGeneration generates.                      *)
(***************************************************************************)
EXTENDS Integers, Sequences, FiniteSets, TLC

\* ------------------------------------------------------------------ bounds
\* Largest number of validation requests one extractor call returns.
MaxRequests == 2

\* Largest number of consecutive run calls counted in found_pending.
MaxFoundPending == 3

\* ------------------------------------------------------------- Optional[T]
None == <<>>
Some(v) == <<v>>
IsNone(o) == o = <<>>
Get(o) == o[1]

\* --------------------------------------------------------- configuration
\* Keys of command_metadata (the catalog the engine is constructed with).
CommandMetadata == {"test_command", "simple_command"}

\* Field names of the parameter classes.
ParamNames == {"required_param", "param1"}

\* Fields a command's parameter_class marks as required.
RequiredParams(cmd) == IF cmd = "test_command" THEN {"required_param"} ELSE {}

\* Fields a command's parameter_class types as float.
FloatFields(cmd) == IF cmd = "test_command" THEN {"required_param"} ELSE {}

\* Command keys of nlu_overrides that declare executable_code.
ExecutableCommands == {"test_command"}

\* --------------------------------------------------- collaborator outputs
\* Intents a classifier may report: catalog keys, the sentinel, a name
\* outside the catalog, or no 'intent' key at all.
ClassifierIntents ==
    {Some(c) : c \in CommandMetadata} \cup {Some("unknown"), Some("other_cmd"), None}

\* Confidences a classifier may report, in tenths.
Confidences == {5, 6, 9}

\* The user texts passed to run.
Queries ==
    { <<"1">>, <<" ", "1", " ">>, <<"2">>, <<"0">>, <<"-", "1">>, <<"a">> }

\* The excluded_intents arguments passed to run.
ExcludedIntentsArgs == { None, Some(<<"test_command">>) }

\* The user texts passed to run when the default classifier is in use:
\* "test command", "run test_command", "Test_Commands",
\* "simple_command test_command", "a", "1".
CommandQueries ==
    { <<"t", "e", "s", "t", " ", "c", "o", "m", "m", "a", "n", "d">>,
      <<"r", "u", "n", " ", "t", "e", "s", "t", "_", "c", "o", "m", "m", "a", "n", "d">>,
      <<"T", "e", "s", "t", "_", "C", "o", "m", "m", "a", "n", "d", "s">>,
      <<"s", "i", "m", "p", "l", "e", "_", "c", "o", "m", "m", "a", "n", "d", " ",
        "t", "e", "s", "t", "_", "c", "o", "m", "m", "a", "n", "d">>,
      <<"a">>, <<"1">> }

\* The excluded_intents arguments passed to run when the default
\* classifier is in use.
DefaultExcludedIntentsArgs ==
    { None, Some(<<>>), Some(<<"test_command">>),
      Some(<<"test_command", "simple_command">>) }

Absent == "<absent>"
EmptyParams == [n \in ParamNames |-> Absent]

\* Parameter dicts an extractor may return.
ExtractedParams ==
    { EmptyParams,
      [required_param |-> Absent, param1 |-> "x"],
      [required_param |-> "1.5", param1 |-> "x"],
      [required_param |-> "abc", param1 |-> Absent] }

\* ValidationRequestInfo(parameter_name, reason) values an extractor may return.
ValidationRequestInfo ==
    { [parameter_name |-> "required_param", reason |-> "missing_required"],
      [parameter_name |-> "param1", reason |-> "invalid_format"] }

RECURSIVE SeqsUpTo(_, _)
SeqsUpTo(S, n) ==
    IF n = 0 THEN { <<>> }
    ELSE LET shorter == SeqsUpTo(S, n - 1)
         IN  shorter \cup { Append(s, x) : s \in {t \in shorter : Len(t) = n - 1}, x \in S }

\* Request lists an extractor may return.
ValidationRequestLists == SeqsUpTo(ValidationRequestInfo, MaxRequests)

\* Instances of the declared result_class an executable may return.
ResultObjects == {"DummyResult_1", "DummyResult_2"}

\* Texts a text generator override may return.
GeneratedTexts == {"generated text"}

\* ------------------------------------------------------------ enum values
INTENT_CLASSIFICATION == "intent_classification"
PARAMETER_IDENTIFICATION == "parameter_identification"
CODE_EXECUTION == "code_execution"
RESPONSE_TEXT_GENERATION == "response_text_generation"

CLARIFYING_INTENT == "clarifying_intent"
VALIDATING_PARAMETER == "validating_parameter"
AWAITING_FEEDBACK == "awaiting_feedback"

\* 0.6, in tenths
CLARIFICATION_CONFIDENCE_THRESHOLD == 6

\* ------------------------------------------------------------- str, int()
Digits == {"0", "1", "2"}

DigitVal(c) == CASE c = "0" -> 0 [] c = "1" -> 1 [] c = "2" -> 2

RECURSIVE lstrip(_)
lstrip(s) == IF s # <<>> /\ Head(s) = " " THEN lstrip(Tail(s)) ELSE s

RECURSIVE rstrip(_)
rstrip(s) ==
    IF s # <<>> /\ s[Len(s)] = " " THEN rstrip(SubSeq(s, 1, Len(s) - 1)) ELSE s

\* str.strip()
strip(s) == rstrip(lstrip(s))

SignOf(s) == IF s # <<>> /\ Head(s) = "-" THEN -1 ELSE 1

Unsigned(s) == IF s # <<>> /\ Head(s) \in {"-", "+"} THEN Tail(s) ELSE s

\* int(s) raises ValueError unless s is an optional sign and digits.
RaisesValueError(s) ==
    LET body == Unsigned(strip(s))
    IN  body = <<>> \/ \E i \in 1..Len(body) : body[i] \notin Digits

RECURSIVE DigitsValue(_)
DigitsValue(d) ==
    IF d = <<>> THEN 0
    ELSE 10 * DigitsValue(SubSeq(d, 1, Len(d) - 1)) + DigitVal(d[Len(d)])

\* int(s) where it does not raise
int(s) == SignOf(strip(s)) * DigitsValue(Unsigned(strip(s)))

\* The user query as one text value.
RECURSIVE Str(_)
Str(s) == IF s = <<>> THEN "" ELSE Head(s) \o Str(Tail(s))

\* Python truthiness of an Optional[str]
Truthy(o) == ~IsNone(o) /\ Get(o) # ""

\* ------------------------------------------------------------ data model
\* InteractionLogEntry(stage, prompt, response)
InteractionLogEntry(stage, prompt, response) ==
    [stage |-> stage, prompt |-> prompt, response |-> response]

\* ClarificationData(options, prompt)
ClarificationData(options, prompt) ==
    [kind |-> "ClarificationData", options |-> options, prompt |-> prompt]

\* ValidationData(requests, prompt)
ValidationData(requests, prompt) ==
    [kind |-> "ValidationData", requests |-> requests, prompt |-> prompt]

IsClarificationData(d) == ~IsNone(d) /\ Get(d).kind = "ClarificationData"
IsValidationData(d) == ~IsNone(d) /\ Get(d).kind = "ValidationData"

\* getattr(interaction_data, "prompt", None), None when there is no data
PromptOf(d) ==
    IF IsNone(d) THEN None
    ELSE IF Get(d).kind = "ClarificationData" THEN Some(Get(d).prompt)
    ELSE Get(d).prompt

\* NLUPipelineContext(command_metadata=...): the fields run and the
\* handlers read or write, and the one field that could hold a user text
NLUPipelineContext ==
    [current_intent |-> None,
     current_parameters |-> EmptyParams,
     confidence_score |-> 0,
     last_user_message_for_response |-> None,
     artifacts |-> None,
     interaction_mode |-> None,
     interaction_data |-> None]

\* NLUResult(command, parameters, artifacts, conversation_detail)
NLUResult(command, parameters, artifacts, interactions, response_text) ==
    [command |-> command, parameters |-> parameters, artifacts |-> artifacts,
     interactions |-> interactions, response_text |-> response_text]

\* ------------------------------------------------- interaction handlers
HandlerResult(context, proceed, goto, response) ==
    [context |-> context, proceed |-> proceed, goto_step |-> goto,
     response |-> response]

ClearInteractionKeepData(ctx) == [ctx EXCEPT !.interaction_mode = None]

ClearInteractionKeepMode(ctx) == [ctx EXCEPT !.interaction_data = None]

\* context.interaction_mode = None; context.interaction_data = None
ClearInteraction(ctx) ==
    [ctx EXCEPT !.interaction_mode = None, !.interaction_data = None]

RECURSIVE OptionLines(_, _)
\* "\n".join(f"{i+1}. {option}" ...), options from position i on
OptionLines(options, i) ==
    IF i > Len(options) THEN ""
    ELSE ToString(i) \o ". " \o options[i]
         \o (IF i < Len(options) THEN "\n" ELSE "")
         \o OptionLines(options, i + 1)

ClarificationHandler_get_initial_prompt(ctx) ==
    IF ~IsClarificationData(ctx.interaction_data)
    THEN "Sorry, I got confused. Could you please rephrase?"
    ELSE LET data == Get(ctx.interaction_data)
         IN  data.prompt \o "\n" \o OptionLines(data.options, 1)

ChoiceIndexOneOff(user_input) == int(strip(user_input))

\* choice_index = int(user_input.strip()) - 1
ChoiceIndex(user_input) == int(strip(user_input)) - 1

ClarificationHandlerAsksAgain(ctx, user_input) ==
    HandlerResult(ctx, FALSE, None,
                  Some("Sorry, I didn't understand that choice. Please try again."))

ClarificationHandler_handle_input(ctx, user_input) ==
    IF ~IsClarificationData(ctx.interaction_data)
    THEN HandlerResult(ClearInteraction(ctx), FALSE, None,
                       Some("Error: Invalid interaction data for clarification."))
    ELSE LET data == Get(ctx.interaction_data)
             chosen_intent ==
                 IF RaisesValueError(strip(user_input)) THEN None
                 ELSE IF 0 <= ChoiceIndex(user_input)
                         /\ ChoiceIndex(user_input) < Len(data.options)
                      THEN Some(data.options[ChoiceIndex(user_input) + 1])
                      ELSE None
             cleared == ClearInteraction(ctx)
         IN  IF Truthy(chosen_intent)
             THEN HandlerResult(
                      [cleared EXCEPT !.current_intent = chosen_intent,
                                      !.confidence_score = 10],
                      TRUE, Some(PARAMETER_IDENTIFICATION), None)
             ELSE HandlerResult(cleared, FALSE, None,
                      Some("Sorry, I didn't understand that choice. Please try again."))

LastRequest(requests) == requests[Len(requests)]

\* first_request = data.requests[0]
FirstRequest(requests) == requests[1]

ValidationHandler_get_initial_prompt(ctx) ==
    IF ~IsValidationData(ctx.interaction_data)
    THEN "Sorry, I need more information. Could you please rephrase?"
    ELSE LET data == Get(ctx.interaction_data)
         IN  IF data.requests = <<>>
             THEN "Sorry, something went wrong with validation. Could you rephrase?"
             ELSE IF Truthy(data.prompt) THEN Get(data.prompt)
             ELSE "What is the value for "
                  \o FirstRequest(data.requests).parameter_name
                  \o "? (" \o FirstRequest(data.requests).reason \o ")"

ValidatedValueStripped(user_input) == Str(strip(user_input))

\* validated_value = user_input
ValidatedValue(user_input) == Str(user_input)

ValidationHandlerAsksNext(ctx, user_input) ==
    HandlerResult(ctx, TRUE, Some(CODE_EXECUTION), None)

ValidationHandler_handle_input(ctx, user_input) ==
    IF ~IsValidationData(ctx.interaction_data)
    THEN HandlerResult(ClearInteraction(ctx), FALSE, None,
                       Some("Error: Invalid interaction data for validation."))
    ELSE LET data == Get(ctx.interaction_data)
         IN  IF data.requests = <<>>
             THEN HandlerResult(ClearInteraction(ctx), FALSE, None,
                      Some("Error: No validation request details found."))
             ELSE LET parameter_name == FirstRequest(data.requests).parameter_name
                      updated ==
                          [ctx EXCEPT !.current_parameters[parameter_name] =
                                          ValidatedValue(user_input)]
                  IN  HandlerResult(ClearInteraction(updated), TRUE,
                                    Some(CODE_EXECUTION), None)

\* self._interaction_handlers
InteractionHandlers == {CLARIFYING_INTENT, VALIDATING_PARAMETER}

GetInitialPromptByData(mode, ctx) ==
    IF IsValidationData(ctx.interaction_data)
    THEN ValidationHandler_get_initial_prompt(ctx)
    ELSE ClarificationHandler_get_initial_prompt(ctx)

\* self._interaction_handlers[mode].get_initial_prompt(ctx)
get_initial_prompt(mode, ctx) ==
    IF mode = CLARIFYING_INTENT THEN ClarificationHandler_get_initial_prompt(ctx)
    ELSE ValidationHandler_get_initial_prompt(ctx)

handle_input(mode, ctx, user_input) ==
    IF mode = CLARIFYING_INTENT THEN ClarificationHandler_handle_input(ctx, user_input)
    ELSE ValidationHandler_handle_input(ctx, user_input)

\* ------------------------------------------------ construction arguments
\* A Python object as the validation sees it: its type and its text.
PyObject(type, repr) == [type |-> type, repr |-> repr]

\* what d.get(key) stands for when the dict has no such key
Missing == PyObject("<missing>", "")

\* the classes of the configuration that derive from pydantic.BaseModel
BaseModelSubclasses == {"DummyParams", "SimpleParams", "DummyResult"}

\* inspect.isclass(v)
isclass(v) == v.type = "type"

\* issubclass(v, BaseModel), for a class v
issubclass_BaseModel(v) == v.repr \in BaseModelSubclasses

\* callable(v)
callable(v) == v.type \in {"function", "type"}

\* isinstance(v, interface)
isinstance(v, interface) == v.type = interface

\* One value of command_metadata: {"description": ..., "parameter_class": ...}
CommandDef(description, parameter_class) ==
    [type |-> "dict", description |-> description,
     parameter_class |-> parameter_class]

\* a value of command_metadata that is no dict
CommandDefNotADict ==
    [type |-> "str", description |-> Missing, parameter_class |-> Missing]

\* Descriptions a catalog entry may carry: none, a text, the empty text, a
\* value that is no text.
Descriptions ==
    { Missing, PyObject("str", "A test command."), PyObject("str", ""),
      PyObject("int", "123") }

\* parameter_class values a catalog entry may carry: none, a BaseModel
\* subclass, another class, a value that is no class.
ParameterClasses ==
    { Missing, PyObject("type", "DummyParams"), PyObject("type", "NotBaseModel"),
      PyObject("str", "DummyParams") }

CommandDefs ==
    { CommandDef(d, p) : d \in Descriptions, p \in ParameterClasses }
    \cup { CommandDefNotADict }

\* The keys of command_metadata in the order metadata.items() yields them.
CommandKeys == <<"test_command", "simple_command">>

\* command_metadata arguments: a dict over the command keys, or None (its
\* items are then never read).
CommandMetadataArgs ==
    { [type |-> "dict", items |-> [test_command |-> t, simple_command |-> c]] :
        t \in CommandDefs,
        c \in { CommandDef(PyObject("str", "A test command."),
                           PyObject("type", "DummyParams")),
                CommandDef(PyObject("str", ""), PyObject("type", "DummyParams")),
                CommandDef(PyObject("str", "A test command."),
                           PyObject("type", "NotBaseModel")) } }
    \cup { [type |-> "NoneType", items |-> [k \in CommandMetadata |-> CommandDefNotADict]] }

\* the catalog of the test suite
valid_command_metadata ==
    [type |-> "dict",
     items |-> [test_command |->
                    CommandDef(PyObject("str", "A test command with params and potential execution."),
                               PyObject("type", "DummyParams")),
                simple_command |->
                    CommandDef(PyObject("str", "A simple command with no required params."),
                               PyObject("type", "SimpleParams"))]]

NoHistory == PyObject("NoneType", "None")

\* conversation_history arguments: None, a list, a value that is no list
ConversationHistoryArgs ==
    { PyObject("NoneType", "None"), PyObject("list", "[]"), PyObject("str", "'hi'") }

\* {"function": ..., "result_class": ...}
ExecutableCode(function, result_class) ==
    [type |-> "dict", function |-> function, result_class |-> result_class]

ExecutableCodeMissing ==
    [type |-> "<missing>", function |-> Missing, result_class |-> Missing]

ExecutableCodeNotADict ==
    [type |-> "str", function |-> Missing, result_class |-> Missing]

\* {"executable_code": ...}
CommandOverride(executable_code) ==
    [type |-> "dict", executable_code |-> executable_code]

CommandOverrideMissing ==
    [type |-> "<missing>", executable_code |-> ExecutableCodeMissing]

CommandOverrideNotADict ==
    [type |-> "str", executable_code |-> ExecutableCodeMissing]

Functions ==
    { Missing, PyObject("function", "dummy_exec_func_success"), PyObject("int", "123") }

ResultClasses ==
    { Missing, PyObject("type", "DummyResult"), PyObject("type", "NotBaseModel"),
      PyObject("str", "DummyResult") }

\* What nlu_overrides may hold under a command key.
CommandOverrides ==
    { CommandOverrideMissing, CommandOverrideNotADict,
      CommandOverride(ExecutableCodeMissing),
      CommandOverride(ExecutableCodeNotADict) }
    \cup { CommandOverride(ExecutableCode(f, r)) : f \in Functions, r \in ResultClasses }

\* The keys of nlu_overrides in the order overrides.items() yields them.
OverrideKeys ==
    <<"intent_detection", "param_extraction", "text_generation", "test_command",
      "other_cmd">>

nlu_interface_keys == {"intent_detection", "param_extraction", "text_generation"}

valid_interfaces ==
    [intent_detection |-> "IntentDetectionInterface",
     param_extraction |-> "ParameterExtractionInterface",
     text_generation |-> "TextGenerationInterface"]

\* nlu_overrides as a dict: its value (or Missing) under each reserved key
\* and under the command key; it has no entry under other_cmd, a key that
\* names no command of the catalog.
Overrides(intent_detection, param_extraction, text_generation, test_command) ==
    [type |-> "dict",
     intent_detection |-> intent_detection,
     param_extraction |-> param_extraction,
     text_generation |-> text_generation,
     test_command |-> test_command,
     other_cmd |-> CommandOverrideMissing]

\* {}
empty_nlu_overrides ==
    Overrides(Missing, Missing, Missing, CommandOverrideMissing)

NoOverrides == [empty_nlu_overrides EXCEPT !.type = "NoneType"]

\* nlu_overrides with a well-formed entry under other_cmd
WithOtherCommand(overrides) ==
    [overrides EXCEPT !.other_cmd =
        CommandOverride(ExecutableCode(
            PyObject("function", "dummy_exec_func_success"),
            PyObject("type", "DummyResult")))]

\* nlu_overrides arguments: None, a value that is no dict, a dict with a
\* classifier and a command entry, a dict with an extractor and a text
\* generator, or a dict with an entry under a key outside the catalog
NluOverridesArgs ==
    { NoOverrides, [empty_nlu_overrides EXCEPT !.type = "int"] }
    \cup
    { Overrides(i, Missing, Missing, c) :
        i \in { Missing, PyObject("IntentDetectionInterface", "mock_intent_detector"),
                PyObject("ParameterExtractionInterface", "mock_param_extractor") },
        c \in CommandOverrides }
    \cup
    { Overrides(Missing, p, t, CommandOverrideMissing) :
        p \in { Missing, PyObject("ParameterExtractionInterface", "mock_param_extractor"),
                PyObject("object", "object()") },
        t \in { Missing, PyObject("TextGenerationInterface", "mock_text_generator"),
                PyObject("object", "object()") } }
    \cup
    { WithOtherCommand(Overrides(Missing, Missing, Missing, c)) :
        c \in { CommandOverrideMissing, CommandOverrideNotADict } }

\* the overrides of the test suite: the three components and the
\* executable of test_command
valid_nlu_overrides ==
    Overrides(PyObject("IntentDetectionInterface", "mock_intent_detector"),
              PyObject("ParameterExtractionInterface", "mock_param_extractor"),
              PyObject("TextGenerationInterface", "mock_text_generator"),
              CommandOverride(ExecutableCode(
                  PyObject("function", "dummy_exec_func_success"),
                  PyObject("type", "DummyResult"))))

\* ------------------------------------------------------------- validation
CommandDefErrorWithoutSubclassCheck(cmd_def) ==
    IF cmd_def.type # "dict" THEN Some("TypeError")
    ELSE IF cmd_def.description = Missing \/ cmd_def.description.type # "str"
    THEN Some("ValueError")
    ELSE IF cmd_def.parameter_class = Missing THEN Some("ValueError")
    ELSE IF ~isclass(cmd_def.parameter_class) THEN Some("TypeError")
    ELSE None

\* The exception one iteration of _validate_command_metadata raises, None
\* when the entry passes.
CommandDefError(cmd_def) ==
    IF cmd_def.type # "dict" THEN Some("TypeError")
    ELSE IF cmd_def.description = Missing \/ cmd_def.description.type # "str"
    THEN Some("ValueError")
    ELSE IF cmd_def.parameter_class = Missing THEN Some("ValueError")
    ELSE IF ~isclass(cmd_def.parameter_class) THEN Some("TypeError")
    ELSE IF ~issubclass_BaseModel(cmd_def.parameter_class) THEN Some("TypeError")
    ELSE None

RECURSIVE FirstError(_, _)
\* the exception the loop stops at: the first one of errors from position i on
FirstError(errors, i) ==
    IF i > Len(errors) THEN None
    ELSE IF ~IsNone(errors[i]) THEN errors[i]
    ELSE FirstError(errors, i + 1)

\* _validate_command_metadata(metadata): the exception raised, None on success
validate_command_metadata(metadata) ==
    FirstError([i \in 1..Len(CommandKeys) |->
                    CommandDefError(metadata.items[CommandKeys[i]])], 1)

CommandOverrideErrorWithoutCallableCheck(value) ==
    LET exec_code_def == value.executable_code
    IN  IF value.type # "dict" \/ exec_code_def.type = "<missing>"
        THEN Some("ValueError")
        ELSE IF exec_code_def.type # "dict" THEN Some("TypeError")
        ELSE IF exec_code_def.function = Missing THEN Some("ValueError")
        ELSE IF exec_code_def.result_class = Missing THEN Some("ValueError")
        ELSE IF ~isclass(exec_code_def.result_class) THEN Some("TypeError")
        ELSE IF ~issubclass_BaseModel(exec_code_def.result_class) THEN Some("TypeError")
        ELSE None

\* The exception one iteration of _validate_nlu_overrides raises on a
\* command key, None when the entry passes.
CommandOverrideError(value) ==
    LET exec_code_def == value.executable_code
    IN  IF value.type # "dict" \/ exec_code_def.type = "<missing>"
        THEN Some("ValueError")
        ELSE IF exec_code_def.type # "dict" THEN Some("TypeError")
        ELSE IF exec_code_def.function = Missing \/ ~callable(exec_code_def.function)
        THEN Some("ValueError")
        ELSE IF exec_code_def.result_class = Missing THEN Some("ValueError")
        ELSE IF ~isclass(exec_code_def.result_class) THEN Some("TypeError")
        ELSE IF ~issubclass_BaseModel(exec_code_def.result_class) THEN Some("TypeError")
        ELSE None

\* The exception one iteration of _validate_nlu_overrides raises, None when
\* the key is absent or its value passes.
OverrideError(overrides, key) ==
    IF key \in nlu_interface_keys
    THEN IF overrides[key] = Missing THEN None
         ELSE IF ~isinstance(overrides[key], valid_interfaces[key])
         THEN Some("TypeError")
         ELSE None
    ELSE IF overrides[key].type = "<missing>" THEN None
         ELSE CommandOverrideError(overrides[key])

\* _validate_nlu_overrides(overrides): the exception raised, None on success
validate_nlu_overrides(overrides) ==
    FirstError([i \in 1..Len(OverrideKeys) |->
                    OverrideError(overrides, OverrideKeys[i])], 1)

\* parsed_nlu_overrides = nlu_overrides or {}
ParsedNluOverrides(nlu_overrides) ==
    IF nlu_overrides.type = "NoneType" \/ nlu_overrides = empty_nlu_overrides
    THEN empty_nlu_overrides
    ELSE nlu_overrides

\* The validation of _do_initialize: the exception raised, None on success.
InitializeError(command_metadata_arg, conversation_history_arg, nlu_overrides_arg) ==
    IF command_metadata_arg.type # "dict" THEN Some("TypeError")
    ELSE IF ~IsNone(validate_command_metadata(command_metadata_arg))
    THEN validate_command_metadata(command_metadata_arg)
    ELSE IF conversation_history_arg.type \notin {"NoneType", "list"}
    THEN Some("TypeError")
    ELSE IF ParsedNluOverrides(nlu_overrides_arg).type # "dict"
    THEN Some("TypeError")
    ELSE validate_nlu_overrides(ParsedNluOverrides(nlu_overrides_arg))

\* ------------------------------------------------ DefaultIntentDetection
\* The command keys as texts that can be searched.
CommandText(cmd) ==
    CASE cmd = "test_command" ->
           <<"t", "e", "s", "t", "_", "c", "o", "m", "m", "a", "n", "d">>
      [] cmd = "simple_command" ->
           <<"s", "i", "m", "p", "l", "e", "_", "c", "o", "m", "m", "a", "n", "d">>

\* str.lower(), on the letters the user texts contain
lower(s) ==
    [i \in 1..Len(s) |-> CASE s[i] = "T" -> "t" [] s[i] = "C" -> "c" [] OTHER -> s[i]]

RECURSIVE LastPart(_)
\* s.split(".")[-1]
LastPart(s) ==
    IF \A i \in 1..Len(s) : s[i] # "." THEN s
    ELSE LastPart(Tail(s))

\* s.replace("_", " ")
spaced(s) == [i \in 1..Len(s) |-> IF s[i] = "_" THEN " " ELSE s[i]]

\* needle in hay
Contains(needle, hay) ==
    \E i \in 0..(Len(hay) - Len(needle)) :
        SubSeq(hay, i + 1, i + Len(needle)) = needle

\* hay.startswith(needle)
StartsWith(hay, needle) ==
    Len(needle) <= Len(hay) /\ SubSeq(hay, 1, Len(needle)) = needle

\* hay.endswith(needle)
EndsWith(hay, needle) ==
    Len(needle) <= Len(hay)
    /\ SubSeq(hay, Len(hay) - Len(needle) + 1, Len(hay)) = needle

\* name is present in the lowered user text as a whole word or phrase
WholeWordMatch(name, user_input_lower) ==
    \/ Contains(<<" ">> \o name \o <<" ">>, <<" ">> \o user_input_lower \o <<" ">>)
    \/ StartsWith(user_input_lower, name \o <<" ">>)
    \/ EndsWith(user_input_lower, <<" ">> \o name)
    \/ user_input_lower = name

command_name_raw(cmd) == lower(LastPart(CommandText(cmd)))

command_name_spaced(cmd) == spaced(command_name_raw(cmd))

RECURSIVE FirstPass(_, _, _, _)
\* the first loop of _find_best_match from position i on; best is
\* (best_match_cmd, best_match_type) so far
FirstPass(commands, user_input_lower, i, best) ==
    IF i > Len(commands) THEN best
    ELSE IF WholeWordMatch(command_name_spaced(commands[i]), user_input_lower)
    THEN <<Some(commands[i]), 2>>
    ELSE IF WholeWordMatch(command_name_raw(commands[i]), user_input_lower)
            /\ best[2] < 2
    THEN FirstPass(commands, user_input_lower, i + 1, <<Some(commands[i]), 2>>)
    ELSE FirstPass(commands, user_input_lower, i + 1, best)

RECURSIVE SecondPass(_, _, _)
\* the second loop of _find_best_match from position i on
SecondPass(commands, user_input_lower, i) ==
    IF i > Len(commands) THEN <<None, 0>>
    ELSE IF Contains(command_name_spaced(commands[i]), user_input_lower)
    THEN <<Some(commands[i]), 1>>
    ELSE IF Contains(command_name_raw(commands[i]), user_input_lower)
    THEN <<Some(commands[i]), 1>>
    ELSE SecondPass(commands, user_input_lower, i + 1)

\* DefaultIntentDetection._find_best_match(commands, user_input)
find_best_match(commands, user_input) ==
    LET first == FirstPass(commands, lower(user_input), 1, <<None, 0>>)
    IN  IF first[2] = 2 THEN first
        ELSE SecondPass(commands, lower(user_input), 1)

ExcludedSetIgnored(excluded) == {}

\* excluded_set = set(excluded_intents) if excluded_intents else set()
ExcludedSet(excluded) ==
    IF IsNone(excluded) THEN {}
    ELSE { Get(excluded)[i] : i \in 1..Len(Get(excluded)) }

\* [cmd for cmd in self._command_keys if cmd not in excluded_set]
AvailableCommands(excluded) ==
    SelectSeq(CommandKeys, LAMBDA cmd : cmd \notin ExcludedSet(excluded))

\* DefaultIntentDetection.classify_intent(user_input, context, excluded_intents)
DefaultIntentDetection_classify_intent(user_input, excluded) ==
    LET available_commands == AvailableCommands(excluded)
        match == find_best_match(available_commands, user_input)
    IN  IF available_commands = <<>>
        THEN [outcome |-> "returned", intent |-> Some("unknown"), confidence |-> 0]
        ELSE IF ~IsNone(match[1])
        THEN [outcome |-> "returned", intent |-> match[1],
              confidence |-> IF match[2] = 2 THEN 9 ELSE 7]
        ELSE [outcome |-> "returned", intent |-> Some("unknown"), confidence |-> 1]

\* ------------------------------------------------------------------ state
VARIABLES
    pipeline_context,      \* self._pipeline_context
    is_trained,            \* self._is_trained
    goto_step,             \* run: the step the loop executes next; None outside a call
    user_query,            \* run: argument
    excluded_intents,      \* run: argument
    current_interactions,  \* run: local list of log entries
    parameter_class,       \* run: local, bound by ParameterIdentification only
    final_result,          \* the NLUResult the last run call returned
    calls,                 \* collaborator invocations of the current/last run call
    steps,                 \* steps executed by the current/last run call
    resumed_context,       \* the context with the pending interaction the
                           \* current/last run call found, None on a fresh call
    found_pending,         \* how many run calls in a row, up to the
                           \* current/last one, found an interaction pending
    command_metadata,      \* self._command_metadata
    nlu_overrides,         \* self._nlu_overrides_config
    last_call              \* the last public method called and the exception
                           \* that propagated out of it, if any

vars == <<pipeline_context, is_trained, goto_step, user_query, excluded_intents,
          current_interactions, parameter_class, final_result, calls, steps,
          resumed_context, found_pending, command_metadata, nlu_overrides,
          last_call>>

\* the configuration the engine holds
config == <<command_metadata, nlu_overrides>>

\* what run keeps between its steps, and what is kept of its last call
run_locals == <<goto_step, user_query, excluded_intents, current_interactions,
                parameter_class, final_result, calls, steps, resumed_context,
                found_pending>>

\* the engine before __init__ has assigned anything
NoContext == [unset |-> TRUE]

Constructed == pipeline_context # NoContext

\* A call of method that returned (raised = None) or raised; found is the
\* interaction_mode that was pending when it was made, args the
\* configuration given to __init__ or reset.
Call(method, raised, args) ==
    [method |-> method, raised |-> raised, args |-> args,
     found |-> IF Constructed THEN pipeline_context.interaction_mode ELSE None]

\* no run call has been made
NoRunYet ==
    /\ goto_step = None
    /\ user_query = <<>>
    /\ excluded_intents = None
    /\ current_interactions = <<>>
    /\ parameter_class = None
    /\ final_result = None
    /\ calls = <<>>
    /\ steps = <<>>
    /\ resumed_context = None
    /\ found_pending = 0

\* TalkEngine.__init__ with the configuration of the test suite
Init ==
    /\ pipeline_context = NLUPipelineContext
    /\ is_trained = FALSE
    /\ NoRunYet
    /\ command_metadata = valid_command_metadata
    /\ nlu_overrides = valid_nlu_overrides
    /\ last_call = [method |-> "__init__", raised |-> None, found |-> None,
                    args |-> <<command_metadata, NoHistory, nlu_overrides>>]

\* the overrides of the test suite without a classifier: the engine uses
\* DefaultIntentDetection
nlu_overrides_default_intent_detection ==
    [valid_nlu_overrides EXCEPT !.intent_detection = Missing]

\* TalkEngine.__init__ with no intent_detection override
InitDefaultIntentDetection ==
    /\ pipeline_context = NLUPipelineContext
    /\ is_trained = FALSE
    /\ NoRunYet
    /\ command_metadata = valid_command_metadata
    /\ nlu_overrides = nlu_overrides_default_intent_detection
    /\ last_call = [method |-> "__init__", raised |-> None, found |-> None,
                    args |-> <<command_metadata, NoHistory, nlu_overrides>>]

\* what command_metadata and nlu_overrides hold before __init__ assigns them
Unset == [type |-> "unset"]

\* before TalkEngine(...) is called
InitUnconstructed ==
    /\ pipeline_context = NoContext
    /\ is_trained = FALSE
    /\ NoRunYet
    /\ command_metadata = Unset
    /\ nlu_overrides = Unset
    /\ last_call = [method |-> "none", raised |-> None, found |-> None,
                    args |-> <<>>]

\* ---------------------------------------------------------------- helpers
MapGotoStepAlwaysDefault(goto_step_from_handler) == INTENT_CLASSIFICATION

\* engine.run: mapping of the handler's goto step onto the engine's
MapGotoStep(goto_step_from_handler) ==
    IF goto_step_from_handler = Some(PARAMETER_IDENTIFICATION)
    THEN PARAMETER_IDENTIFICATION
    ELSE IF goto_step_from_handler = Some(CODE_EXECUTION)
    THEN CODE_EXECUTION
    ELSE INTENT_CLASSIFICATION

InitialInteractionsKept(previous) == previous

\* current_interactions: list[InteractionLogEntry] = [], whatever the
\* previous call logged
InitialInteractions(previous) == <<>>

NextStepAfterPromptGenerates == Some(RESPONSE_TEXT_GENERATION)

\* next_step = None; break -- after the intermediate result with the prompt
NextStepAfterPrompt == None

ResetRunFieldsSkipped(ctx) == ctx

\* engine.run: reset of the per-run context fields
ResetRunFields(ctx) ==
    [ctx EXCEPT !.artifacts = None, !.current_intent = None,
                !.current_parameters = EmptyParams, !.confidence_score = 0]

NeedsClarificationInclusive(confidence_score) ==
    confidence_score <= CLARIFICATION_CONFIDENCE_THRESHOLD

\* confidence_score < CLARIFICATION_CONFIDENCE_THRESHOLD
NeedsClarification(confidence_score) ==
    confidence_score < CLARIFICATION_CONFIDENCE_THRESHOLD

\* not current_intent or current_intent == "unknown"
NoValidIntent(ctx) ==
    ~Truthy(ctx.current_intent) \/ ctx.current_intent = Some("unknown")

\* current_intent or "unknown"
IntentOrUnknown(ctx) ==
    IF Truthy(ctx.current_intent) THEN Get(ctx.current_intent) ELSE "unknown"

ClarificationNeededResultWithIntent(ctx, interactions, prompt) ==
    NLUResult(ctx.current_intent, EmptyParams, None, interactions, Some(prompt))

\* the intermediate result returned when clarification is entered
ClarificationNeededResult(ctx, interactions, prompt) ==
    NLUResult(None, EmptyParams, None, interactions, Some(prompt))

\* the intermediate result returned when validation is entered
ValidationNeededResult(ctx, interactions, prompt) ==
    NLUResult(ctx.current_intent, ctx.current_parameters, None, interactions,
              Some(prompt))

\* the result built from the context when the loop ends
ContextResult(ctx, interactions, response_text) ==
    NLUResult(ctx.current_intent, ctx.current_parameters, ctx.artifacts,
              interactions, response_text)

\* the result built by the catch-all handler of run
UnexpectedErrorResult(interactions) ==
    NLUResult(Some("unknown"), EmptyParams, None, interactions,
              Some("Sorry, an unexpected error occurred."))

\* What self._intent_detector.classify_intent may do: the default
\* implementation computes its answer, an override returns any value of
\* the interface or raises.
ClassifierOutcomes(user_input, excluded) ==
    IF nlu_overrides.intent_detection = Missing
    THEN { DefaultIntentDetection_classify_intent(user_input, excluded) }
    ELSE { [outcome |-> "raised", intent |-> None, confidence |-> 0] }
         \cup { [outcome |-> "returned", intent |-> intent, confidence |-> confidence] :
                  intent \in ClassifierIntents, confidence \in Confidences }

CatchAllReraises(exception, interactions) ==
    [result |-> None, raised |-> Some(exception)]

\* except Exception as e: at the end of run; what the call returns and what
\* it lets propagate
CatchAll(exception, interactions) ==
    [result |-> Some(UnexpectedErrorResult(interactions)), raised |-> None]

\* the texts among the extractor's values that the float field accepts
FloatTexts == {"1.5"}

\* parameter_class(**current_parameters) does not raise ValidationError
SchemaValid(cmd, params) ==
    /\ \A f \in RequiredParams(cmd) : params[f] # Absent
    /\ \A f \in FloatFields(cmd) : params[f] # Absent => params[f] \in FloatTexts

ResponseTextOfGenerator(outcome) == outcome.text

\* the response text of the call: the generator's, or the apology when the
\* generator raised
ResponseText(outcome) ==
    IF outcome.kind = "raised"
    THEN "Sorry, I encountered an error generating a response."
    ELSE outcome.text

HasNoExecutable(intent) == FALSE

HasExecutableAlways(intent) == TRUE

\* the command's override declares executable_code
HasExecutable(intent) == Truthy(intent) /\ Get(intent) \in ExecutableCommands

\* What the executable returned or did
ExecutableOutcomes ==
    { [kind |-> "instance", value |-> r] : r \in ResultObjects }
    \cup { [kind |-> "wrong_type", value |-> "dict"],
           [kind |-> "raised", value |-> "ValueError"] }

StoredArtifactsUnchecked(outcome) ==
    IF outcome.kind = "raised" THEN None ELSE Some(outcome.value)

\* artifacts stored after the isinstance(result_object, result_class) check
StoredArtifacts(outcome) ==
    IF outcome.kind = "instance" THEN Some(outcome.value) ELSE None

ExtractorUserInputStripped(query) == Str(strip(query))

\* user_input=user_query: the extractor is given the text of this call
ExtractorUserInput(query) == Str(query)

CanExtractAnyNamedIntent(ctx) == ~NoValidIntent(ctx)

\* The extractor is called: current_intent is set and is not "unknown",
\* and command_metadata holds a definition with a parameter_class for it.
CanExtract(ctx) ==
    ~NoValidIntent(ctx) /\ Get(ctx.current_intent) \in CommandMetadata

NextStepAfterExtractorErrorExecutes == Some(CODE_EXECUTION)

\* except Exception around the extractor call:
\* next_step = RESPONSE_TEXT_GENERATION
NextStepAfterExtractorError == Some(RESPONSE_TEXT_GENERATION)

\* the keywords run calls generate_text with
GenerateTextKeywords == {"command", "parameters", "artifacts", "context"}

\* the parameters DefaultTextGeneration.generate_text declares after self;
\* none has a default and there is no **kwargs
DefaultGenerateTextParameters == {"intent", "parameters", "artifacts", "context"}

\* A call by keywords binds (raises no TypeError) when every keyword names
\* a parameter and no parameter is left without an argument.
BindsKeywords(keywords, parameters) == keywords = parameters

\* the order parameters.items() yields the keys in
ParamOrder == <<"required_param", "param1">>

RECURSIVE JoinParams(_, _, _)
\* ", ".join([f"{k}='{v}'" for k, v in parameters.items()]) from key i on;
\* first tells whether no item has been written yet
JoinParams(parameters, i, first) ==
    IF i > Len(ParamOrder) THEN ""
    ELSE IF parameters[ParamOrder[i]] = Absent
    THEN JoinParams(parameters, i + 1, first)
    ELSE (IF first THEN "" ELSE ", ")
         \o ParamOrder[i] \o "='" \o parameters[ParamOrder[i]] \o "'"
         \o JoinParams(parameters, i + 1, FALSE)

\* DefaultTextGeneration.generate_text(intent, parameters, artifacts, context)
DefaultTextGeneration_generate_text(intent, parameters, artifacts) ==
    IF intent = "unknown"
    THEN "I'm sorry, I didn't understand that."
    ELSE LET joined == JoinParams(parameters, 1, TRUE)
             param_str == IF joined = "" THEN "(no parameters)" ELSE joined
         IN  "Intent: " \o intent \o ", Parameters: " \o param_str
             \o (IF IsNone(artifacts) THEN ""
                 ELSE ", Code Result: " \o Get(artifacts))

\* What self._text_generator.generate_text(command=..., parameters=...,
\* artifacts=..., context=...) may do: the default implementation is
\* called by keywords, an override returns a text or raises.
GeneratorOutcomes(ctx) ==
    IF nlu_overrides.text_generation = Missing
    THEN IF BindsKeywords(GenerateTextKeywords, DefaultGenerateTextParameters)
         THEN { [kind |-> "returned",
                 text |-> DefaultTextGeneration_generate_text(
                              IntentOrUnknown(ctx), ctx.current_parameters,
                              ctx.artifacts)] }
         ELSE { [kind |-> "raised", text |-> ""] }
    ELSE { [kind |-> "returned", text |-> t] : t \in GeneratedTexts }
         \cup { [kind |-> "raised", text |-> ""] }

\* ---------------------------------------------------------------- actions
\* run(user_query, excluded_intents), from entry up to the step loop:
\* the pending interaction is handed to its handler, which either ends
\* the call or names the step the loop starts at.
Run(query, excluded) ==
    /\ Constructed
    /\ IsNone(goto_step)
    /\ last_call' = Call("run", None, <<>>)
    /\ UNCHANGED config
    /\ user_query' = query
    /\ excluded_intents' = excluded
    /\ resumed_context' = IF IsNone(pipeline_context.interaction_mode)
                          THEN None ELSE Some(pipeline_context)
    /\ found_pending' = IF IsNone(pipeline_context.interaction_mode) THEN 0
                        ELSE IF found_pending < MaxFoundPending
                        THEN found_pending + 1
                        ELSE found_pending
    /\ parameter_class' = None
    /\ calls' = <<>>
    /\ steps' = <<>>
    /\ UNCHANGED is_trained
    /\ LET ctx == pipeline_context
           mode == ctx.interaction_mode
           current_last_prompt_shown ==
               IF IsNone(mode) THEN None ELSE PromptOf(ctx.interaction_data)
       IN  IF IsNone(mode)
           THEN /\ pipeline_context' = ResetRunFields(ctx)
                /\ current_interactions' = InitialInteractions(current_interactions)
                /\ goto_step' = Some(INTENT_CLASSIFICATION)
                /\ final_result' = None
           ELSE IF Get(mode) \in InteractionHandlers
           THEN LET logged ==
                        IF Truthy(current_last_prompt_shown)
                        THEN Append(InitialInteractions(current_interactions),
                                    InteractionLogEntry(Get(mode),
                                        Get(current_last_prompt_shown),
                                        Some(Str(query))))
                        ELSE InitialInteractions(current_interactions)
                    h == handle_input(Get(mode), ctx, query)
                    next == MapGotoStep(h.goto_step)
                IN  /\ current_interactions' = logged
                    /\ IF ~h.proceed
                       THEN /\ pipeline_context' = h.context
                            /\ final_result' =
                                   Some(ContextResult(h.context, logged, h.response))
                            /\ goto_step' = None
                       ELSE /\ pipeline_context' =
                                   IF next = INTENT_CLASSIFICATION
                                   THEN ResetRunFields(h.context)
                                   ELSE h.context
                            /\ final_result' = None
                            /\ goto_step' = Some(next)
           ELSE /\ pipeline_context' = ResetRunFields(ClearInteraction(ctx))
                /\ current_interactions' = InitialInteractions(current_interactions)
                /\ goto_step' = Some(INTENT_CLASSIFICATION)
                /\ final_result' = None

\* Step 1 of the loop.
IntentClassification ==
    /\ goto_step = Some(INTENT_CLASSIFICATION)
    /\ steps' = Append(steps, INTENT_CLASSIFICATION)
    /\ UNCHANGED <<is_trained, user_query, excluded_intents, parameter_class,
                   resumed_context, found_pending, config>>
    /\ \E intent_result \in ClassifierOutcomes(user_query, excluded_intents) :
         /\ calls' = Append(calls, [fn |-> "classify_intent",
                                    user_input |-> Str(user_query),
                                    excluded_intents |-> excluded_intents,
                                    outcome |-> intent_result.outcome,
                                    intent |-> intent_result.intent,
                                    confidence |-> intent_result.confidence])
         /\ IF intent_result.outcome = "raised"
            THEN \* the catch-all of run builds the result
                 /\ final_result' = CatchAll("Exception", current_interactions).result
                 /\ last_call' =
                        [last_call EXCEPT !.raised =
                            CatchAll("Exception", current_interactions).raised]
                 /\ goto_step' = None
                 /\ UNCHANGED <<pipeline_context, current_interactions>>
            ELSE
            LET ctx == [pipeline_context EXCEPT
                           !.current_intent = intent_result.intent,
                           !.confidence_score = intent_result.confidence]
            IN  /\ UNCHANGED last_call
                /\ IF NeedsClarification(intent_result.confidence)
                   THEN LET asking ==
                                [ctx EXCEPT
                                   !.interaction_mode = Some(CLARIFYING_INTENT),
                                   !.interaction_data =
                                       Some(ClarificationData(<<IntentOrUnknown(ctx)>>, ""))]
                            prompt == get_initial_prompt(CLARIFYING_INTENT, asking)
                            logged == Append(current_interactions,
                                          InteractionLogEntry(CLARIFYING_INTENT,
                                                              prompt, None))
                        IN  /\ pipeline_context' = asking
                            /\ current_interactions' = logged
                            /\ final_result' =
                                   Some(ClarificationNeededResult(asking, logged, prompt))
                            /\ goto_step' = NextStepAfterPrompt
                   ELSE /\ pipeline_context' = ctx
                        /\ goto_step' = IF NoValidIntent(ctx)
                                        THEN Some(RESPONSE_TEXT_GENERATION)
                                        ELSE Some(PARAMETER_IDENTIFICATION)
                        /\ UNCHANGED <<current_interactions, final_result>>

\* Step 2 of the loop.
ParameterIdentification ==
    /\ goto_step = Some(PARAMETER_IDENTIFICATION)
    /\ steps' = Append(steps, PARAMETER_IDENTIFICATION)
    /\ UNCHANGED <<is_trained, user_query, excluded_intents, resumed_context,
                   found_pending, config, last_call>>
    /\ IF ~CanExtract(pipeline_context)
       THEN /\ goto_step' = Some(RESPONSE_TEXT_GENERATION)
            /\ UNCHANGED <<pipeline_context, current_interactions, parameter_class,
                           final_result, calls>>
       ELSE /\ parameter_class' = pipeline_context.current_intent
            /\ \/ \* identify_parameters raises: caught at the call
                  /\ calls' = Append(calls, [fn |-> "identify_parameters",
                                             user_input |-> ExtractorUserInput(user_query),
                                             intent |-> pipeline_context.current_intent,
                                             outcome |-> "raised"])
                  /\ goto_step' = NextStepAfterExtractorError
                  /\ UNCHANGED <<pipeline_context, current_interactions, final_result>>
               \/ \E extracted_params \in ExtractedParams,
                     validation_requests \in ValidationRequestLists :
                    LET ctx == [pipeline_context EXCEPT
                                   !.current_parameters = extracted_params]
                    IN  /\ calls' = Append(calls, [fn |-> "identify_parameters",
                                                   user_input |-> ExtractorUserInput(user_query),
                                                   intent |-> pipeline_context.current_intent,
                                                   outcome |-> "returned",
                                                   parameters |-> extracted_params,
                                                   requests |-> validation_requests])
                        /\ IF validation_requests # <<>>
                           THEN LET asking ==
                                        [ctx EXCEPT
                                           !.interaction_mode = Some(VALIDATING_PARAMETER),
                                           !.interaction_data =
                                               Some(ValidationData(validation_requests, None))]
                                    prompt == get_initial_prompt(VALIDATING_PARAMETER, asking)
                                    stored ==
                                        [asking EXCEPT !.interaction_data =
                                            Some(ValidationData(validation_requests,
                                                                Some(prompt)))]
                                    logged == Append(current_interactions,
                                                  InteractionLogEntry(VALIDATING_PARAMETER,
                                                                      prompt, None))
                                IN  /\ pipeline_context' = stored
                                    /\ current_interactions' = logged
                                    /\ final_result' =
                                           Some(ValidationNeededResult(stored, logged, prompt))
                                    /\ goto_step' = NextStepAfterPrompt
                           ELSE /\ pipeline_context' = ctx
                                /\ goto_step' = Some(CODE_EXECUTION)
                                /\ UNCHANGED <<current_interactions, final_result>>

\* Step 3 of the loop.
CodeExecution ==
    /\ goto_step = Some(CODE_EXECUTION)
    /\ steps' = Append(steps, CODE_EXECUTION)
    /\ goto_step' = Some(RESPONSE_TEXT_GENERATION)
    /\ UNCHANGED <<is_trained, user_query, excluded_intents, current_interactions,
                   parameter_class, final_result, resumed_context,
                   found_pending, config, last_call>>
    /\ LET ctx == [pipeline_context EXCEPT !.artifacts = None]
           instantiate(outcome) ==
               [fn |-> "parameter_class", command |-> ctx.current_intent,
                parameters |-> ctx.current_parameters, outcome |-> outcome]
       IN  IF ~HasExecutable(ctx.current_intent)
           THEN /\ pipeline_context' = ctx
                /\ UNCHANGED calls
           ELSE IF IsNone(parameter_class)
           THEN \* the local parameter_class is unbound: caught as Exception
                /\ pipeline_context' = ctx
                /\ calls' = Append(calls, instantiate("UnboundLocalError"))
           ELSE IF ~SchemaValid(Get(parameter_class), ctx.current_parameters)
           THEN /\ pipeline_context' = ctx
                /\ calls' = Append(calls, instantiate("ValidationError"))
           ELSE \E outcome \in ExecutableOutcomes :
                  /\ pipeline_context' =
                         [ctx EXCEPT !.artifacts = StoredArtifacts(outcome)]
                  /\ calls' = calls \o
                         << instantiate("ok"),
                            [fn |-> "function",
                             parameters |-> ctx.current_parameters,
                             outcome |-> outcome] >>

\* Step 4 of the loop, and the construction of the final result.
ResponseTextGeneration ==
    /\ goto_step = Some(RESPONSE_TEXT_GENERATION)
    /\ steps' = Append(steps, RESPONSE_TEXT_GENERATION)
    /\ goto_step' = None
    /\ UNCHANGED <<pipeline_context, is_trained, user_query, excluded_intents,
                   current_interactions, parameter_class, resumed_context,
                   found_pending, config, last_call>>
    /\ \E outcome \in GeneratorOutcomes(pipeline_context) :
         /\ calls' = Append(calls, [fn |-> "generate_text",
                                    command |-> IntentOrUnknown(pipeline_context),
                                    parameters |-> pipeline_context.current_parameters,
                                    artifacts |-> pipeline_context.artifacts,
                                    outcome |-> outcome.kind,
                                    text |-> outcome.text])
         /\ final_result' = Some(ContextResult(pipeline_context,
                                               current_interactions,
                                               Some(ResponseText(outcome))))

\* train()
train ==
    /\ Constructed
    /\ IsNone(goto_step)
    /\ is_trained' = TRUE
    /\ last_call' = Call("train", None, <<>>)
    /\ UNCHANGED <<pipeline_context, run_locals, config>>

\* _do_initialize, called by method: the validation, then the assignments.
\* When the validation raises nothing has been assigned.
do_initialize(method, command_metadata_arg, conversation_history_arg, nlu_overrides_arg) ==
    LET error == InitializeError(command_metadata_arg, conversation_history_arg,
                                 nlu_overrides_arg)
    IN  IF ~IsNone(error)
        THEN /\ last_call' = Call(method, error,
                                  <<command_metadata_arg, conversation_history_arg,
                                    nlu_overrides_arg>>)
             /\ UNCHANGED <<pipeline_context, is_trained, run_locals, config>>
        ELSE /\ command_metadata' = command_metadata_arg
             /\ nlu_overrides' = ParsedNluOverrides(nlu_overrides_arg)
             /\ pipeline_context' = NLUPipelineContext
             /\ is_trained' = FALSE
             /\ last_call' = Call(method, None,
                                  <<command_metadata_arg, conversation_history_arg,
                                    nlu_overrides_arg>>)
             /\ user_query' = <<>>
             /\ excluded_intents' = None
             /\ current_interactions' = <<>>
             /\ parameter_class' = None
             /\ final_result' = None
             /\ calls' = <<>>
             /\ steps' = <<>>
             /\ resumed_context' = None
             /\ found_pending' = 0
             /\ UNCHANGED goto_step

\* TalkEngine(command_metadata, conversation_history, nlu_overrides)
TalkEngine(command_metadata_arg, conversation_history_arg, nlu_overrides_arg) ==
    /\ ~Constructed
    /\ do_initialize("__init__", command_metadata_arg, conversation_history_arg,
                     nlu_overrides_arg)

ResetKeepingContext(command_metadata_arg, conversation_history_arg, nlu_overrides_arg) ==
    /\ Constructed
    /\ IsNone(goto_step)
    /\ is_trained' = FALSE
    /\ last_call' = Call("reset", None,
                         <<command_metadata_arg, conversation_history_arg,
                           nlu_overrides_arg>>)
    /\ UNCHANGED <<pipeline_context, run_locals, config>>

ResetClearingBeforeValidation(command_metadata_arg, conversation_history_arg, nlu_overrides_arg) ==
    /\ Constructed
    /\ IsNone(goto_step)
    /\ LET error == InitializeError(command_metadata_arg, conversation_history_arg,
                                    nlu_overrides_arg)
       IN  IF IsNone(error)
           THEN do_initialize("reset", command_metadata_arg,
                              conversation_history_arg, nlu_overrides_arg)
           ELSE /\ pipeline_context' = NLUPipelineContext
                /\ last_call' = Call("reset", error,
                                     <<command_metadata_arg, conversation_history_arg,
                                       nlu_overrides_arg>>)
                /\ UNCHANGED <<is_trained, run_locals, config>>

\* reset(command_metadata, conversation_history, nlu_overrides); the locals
\* and the result of the last run call are gone when it succeeds.
reset(command_metadata_arg, conversation_history_arg, nlu_overrides_arg) ==
    /\ Constructed
    /\ IsNone(goto_step)
    /\ do_initialize("reset", command_metadata_arg, conversation_history_arg,
                     nlu_overrides_arg)

\* The arguments run is called with: texts that name commands matter to
\* the default classifier only.
RunArguments ==
    IF nlu_overrides.intent_detection = Missing
    THEN CommandQueries \X DefaultExcludedIntentsArgs
    ELSE Queries \X ExcludedIntentsArgs

Next ==
    \/ \E args \in RunArguments : Run(args[1], args[2])
    \/ IntentClassification
    \/ ParameterIdentification
    \/ CodeExecution
    \/ ResponseTextGeneration
    \/ train
    \/ \* the application resets the engine with the configuration it has
       reset(command_metadata, NoHistory, nlu_overrides)

Spec == Init /\ [][Next]_vars

\* The engine with the default classifier.
SpecDefaultIntentDetection == InitDefaultIntentDetection /\ [][Next]_vars

\* The application assigns
\* context.interaction_mode = InteractionState.AWAITING_FEEDBACK to the
\* engine it has constructed or reset, before it calls run.
WriteInteractionMode ==
    /\ Constructed
    /\ NoRunYet
    /\ pipeline_context.interaction_mode # Some(AWAITING_FEEDBACK)
    /\ pipeline_context' =
           [pipeline_context EXCEPT !.interaction_mode = Some(AWAITING_FEEDBACK)]
    /\ UNCHANGED <<is_trained, run_locals, config, last_call>>

NextContextWrites ==
    \/ Next
    \/ WriteInteractionMode

\* The engine whose context is also written from outside.
SpecContextWrites == Init /\ [][NextContextWrites]_vars

\* What the application writes into the context of the engine it has
\* constructed: interaction_mode and interaction_data, with current_intent
\* and current_parameters.  Besides a clarification with a prompt of its
\* own and a validation, the payloads are those the handlers test for: no
\* data, data of the other mode, and a validation without requests.  The
\* writes are numbered.
WrittenInteractions ==
    LET request == [parameter_name |-> "required_param", reason |-> "missing_required"]
        written(mode, data, intent) ==
            [interaction_mode |-> Some(mode), interaction_data |-> data,
             current_intent |-> intent, current_parameters |-> EmptyParams]
    IN  << written(CLARIFYING_INTENT,
                  Some(ClarificationData(<<"test_command", "simple_command">>,
                                         "Which one?")), None),
          written(VALIDATING_PARAMETER,
                  Some(ValidationData(<<request>>, Some("Placeholder"))),
                  Some("test_command")),
          written(CLARIFYING_INTENT, None, None),
          written(CLARIFYING_INTENT, Some(ValidationData(<<request>>, None)), None),
          written(VALIDATING_PARAMETER, None, Some("test_command")),
          written(VALIDATING_PARAMETER,
                  Some(ClarificationData(<<"test_command">>, "")),
                  Some("test_command")),
          written(VALIDATING_PARAMETER, Some(ValidationData(<<>>, None)),
                  Some("test_command")) >>

\* The application puts the engine it has constructed or reset into an
\* interaction, before it calls run.
WriteInteraction ==
    /\ Constructed
    /\ NoRunYet
    /\ IsNone(pipeline_context.interaction_mode)
    /\ \E i \in DOMAIN WrittenInteractions :
         pipeline_context' =
             [pipeline_context EXCEPT
                 !.interaction_mode = WrittenInteractions[i].interaction_mode,
                 !.interaction_data = WrittenInteractions[i].interaction_data,
                 !.current_intent = WrittenInteractions[i].current_intent,
                 !.current_parameters = WrittenInteractions[i].current_parameters]
    /\ UNCHANGED <<is_trained, run_locals, config, last_call>>

\* The application asks a registered handler for its prompt, whatever the
\* context holds, before it calls run; last_call keeps the handler's mode,
\* the context it was given and the text it returned.
GetInitialPrompt ==
    /\ Constructed
    /\ NoRunYet
    /\ \E mode \in InteractionHandlers :
         last_call' = Call("get_initial_prompt", None,
                           <<mode, pipeline_context,
                             get_initial_prompt(mode, pipeline_context)>>)
    /\ UNCHANGED <<pipeline_context, is_trained, run_locals, config>>

NextInteractionWrites ==
    \/ Next
    \/ WriteInteraction
    \/ GetInitialPrompt

\* The engine whose interactions are also set up from outside.
SpecInteractionWrites == Init /\ [][NextInteractionWrites]_vars

\* Malformed configurations reset is called with: a catalog whose
\* test_command has no description, a history that is no list, and an
\* extractor override that is no extractor.
MalformedResetArgs ==
    { <<[valid_command_metadata EXCEPT !.items.test_command.description = Missing],
        NoHistory, NoOverrides>>,
      <<valid_command_metadata, PyObject("str", "'hi'"), NoOverrides>>,
      <<valid_command_metadata, NoHistory,
        Overrides(Missing, PyObject("object", "object()"), Missing,
                  CommandOverrideMissing)>> }

NextResets ==
    \/ Next
    \/ \E args \in MalformedResetArgs : reset(args[1], args[2], args[3])

\* The engine reset with its own configuration or with a malformed one.
SpecResets == Init /\ [][NextResets]_vars

\* the overrides of the test suite without a text generator: the engine
\* uses DefaultTextGeneration
nlu_overrides_default_text_generation ==
    [valid_nlu_overrides EXCEPT !.text_generation = Missing]

\* TalkEngine.__init__ with no text_generation override
InitDefaultTextGeneration ==
    /\ pipeline_context = NLUPipelineContext
    /\ is_trained = FALSE
    /\ NoRunYet
    /\ command_metadata = valid_command_metadata
    /\ nlu_overrides = nlu_overrides_default_text_generation
    /\ last_call = [method |-> "__init__", raised |-> None, found |-> None,
                    args |-> <<command_metadata, NoHistory, nlu_overrides>>]

\* The engine with the default text generator.
SpecDefaultTextGeneration == InitDefaultTextGeneration /\ [][Next]_vars

\* The arguments the constructor and reset are called with: any catalog
\* without history and overrides, and the catalog of the test suite with
\* any history or any overrides.
ConstructionArgs ==
    { <<cm, NoHistory, NoOverrides>> : cm \in CommandMetadataArgs }
    \cup { <<valid_command_metadata, ch, NoOverrides>> : ch \in ConversationHistoryArgs }
    \cup { <<valid_command_metadata, NoHistory, no>> : no \in NluOverridesArgs }

NextConstruction ==
    \/ \E args \in ConstructionArgs : TalkEngine(args[1], args[2], args[3])
    \/ \E args \in ConstructionArgs : reset(args[1], args[2], args[3])
    \/ train

\* Construction and reset with every configuration.
SpecConstruction == InitUnconstructed /\ [][NextConstruction]_vars

TypeOK ==
    /\ goto_step \in {None, Some(INTENT_CLASSIFICATION), Some(PARAMETER_IDENTIFICATION),
                      Some(CODE_EXECUTION), Some(RESPONSE_TEXT_GENERATION)}
    /\ is_trained \in BOOLEAN

\* ------------------------------------------------- vocabulary of the claims
Idle == IsNone(goto_step)

\* a run call has returned and nothing happened since
Returned == Idle /\ ~IsNone(final_result)

\* the current/last run call found no pending interaction
Fresh == IsNone(resumed_context) /\ (~Idle \/ ~IsNone(final_result))

CallsOf(f) == { i \in 1..Len(calls) : calls[i].fn = f }
Invoked(f) == CallsOf(f) # {}

CatalogIntents == { Some(c) : c \in CommandMetadata }

\* the classifier returned to the current/last call (always its first call)
ClassifierReturned ==
    /\ Len(calls) >= 1
    /\ calls[1].fn = "classify_intent"
    /\ calls[1].outcome = "returned"

\* the extractor returned to the current/last call
ExtractorReturned ==
    \E i \in CallsOf("identify_parameters") : calls[i].outcome = "returned"

ExtractorCall == calls[CHOOSE i \in CallsOf("identify_parameters") : TRUE]

ResumedMode(mode) ==
    ~IsNone(resumed_context) /\ Get(resumed_context).interaction_mode = Some(mode)

ResumedData == Get(Get(resumed_context).interaction_data)

LastStep == steps[Len(steps)]

\* ---------------------------------------------------------------------- C1
\* C1: whenever no run call is in progress (after construction, after a
\* completed run, after reset) interaction_data is non-null exactly when
\* interaction_mode is set, ClarificationData goes with ClarifyingIntent and
\* ValidationData with a non-empty request list with ValidatingParameter.
C1_InteractionDataMatchesMode ==
    Idle =>
      LET ctx == pipeline_context
      IN  /\ IsNone(ctx.interaction_data) <=> IsNone(ctx.interaction_mode)
          /\ ctx.interaction_mode = Some(CLARIFYING_INTENT)
                => IsClarificationData(ctx.interaction_data)
          /\ ctx.interaction_mode = Some(VALIDATING_PARAMETER)
                => /\ IsValidationData(ctx.interaction_data)
                   /\ Get(ctx.interaction_data).requests # <<>>

C1_Witness ==
    /\ Returned
    /\ pipeline_context.interaction_mode = Some(VALIDATING_PARAMETER)
    /\ IsValidationData(pipeline_context.interaction_data)

C3_ThresholdIsStrict ==
    ( /\ Idle /\ Fresh /\ ClassifierReturned
      /\ calls[1].intent \in CatalogIntents
      /\ calls[1].confidence >= 6 )
    => pipeline_context.interaction_mode # Some(CLARIFYING_INTENT)

C3_Witness ==
    /\ Returned /\ Fresh /\ ClassifierReturned
    /\ calls[1].intent \in CatalogIntents
    /\ calls[1].confidence = 6
    /\ pipeline_context.interaction_mode # Some(CLARIFYING_INTENT)

\* ---------------------------------------------------------------------- C4
\* the reply of the current/last call is an option number of the pending
\* clarification
AcceptedChoice ==
    /\ ResumedMode(CLARIFYING_INTENT)
    /\ ~RaisesValueError(strip(user_query))
    /\ 1 <= int(strip(user_query))
    /\ int(strip(user_query)) <= Len(ResumedData.options)

ChosenOption == ResumedData.options[int(strip(user_query))]

\* C4: a call that answers a pending clarification with an option number k
\* sets current_intent to options[k-1] and confidence to 1.0, clears the
\* interaction, and goes on at ParameterIdentification in the same call
\* with no classifier call and no reset of the context; if the extractor
\* then returns no validation request, the call ends after
\* ResponseGeneration with command = the chosen option.
C4_AcceptedChoiceResumesAtParameterIdentification ==
    AcceptedChoice =>
      /\ ~Invoked("classify_intent")
      /\ steps = <<>> =>
           /\ goto_step = Some(PARAMETER_IDENTIFICATION)
           /\ pipeline_context =
                  [Get(resumed_context) EXCEPT
                      !.current_intent = Some(ChosenOption),
                      !.confidence_score = 10,
                      !.interaction_mode = None,
                      !.interaction_data = None]
      /\ steps # <<>> => steps[1] = PARAMETER_IDENTIFICATION
      /\ (Idle /\ ExtractorReturned /\ ExtractorCall.requests = <<>>) =>
           /\ LastStep = RESPONSE_TEXT_GENERATION
           /\ ExtractorCall.intent = Some(ChosenOption)
           /\ Get(final_result).command = Some(ChosenOption)

C4_Witness ==
    /\ Returned /\ AcceptedChoice
    /\ ExtractorReturned /\ ExtractorCall.requests = <<>>
    /\ Get(final_result).command = Some("simple_command")

\* ---------------------------------------------------------------------- C5
\* C5: when a fresh call ended in ClarifyingIntent because the classifier
\* returned catalog command X below 0.6, the next call run("1") returns
\* command X and does not leave the engine in ClarifyingIntent.
C5_ClarifyThenChooseOne ==
    ( /\ Returned
      /\ ResumedMode(CLARIFYING_INTENT)
      /\ Get(resumed_context).current_intent \in CatalogIntents
      /\ Get(resumed_context).confidence_score < 6
      /\ user_query = <<"1">> )
    => /\ Get(final_result).command = Get(resumed_context).current_intent
       /\ pipeline_context.interaction_mode # Some(CLARIFYING_INTENT)

C5_Witness ==
    /\ Returned
    /\ ResumedMode(CLARIFYING_INTENT)
    /\ Get(resumed_context).current_intent = Some("test_command")
    /\ ResumedData.options = <<"test_command">>
    /\ user_query = <<"1">>
    /\ Get(final_result).command = Some("test_command")

\* ---------------------------------------------------------------------- C6
\* the reply of the current/last call is not an option number of the
\* pending clarification
RejectedChoice ==
    /\ ResumedMode(CLARIFYING_INTENT)
    /\ \/ RaisesValueError(strip(user_query))
       \/ int(strip(user_query)) < 1
       \/ int(strip(user_query)) > Len(ResumedData.options)

\* C6: a call that answers a pending clarification with an unparsable or
\* out-of-range reply clears the interaction, returns at once with the
\* apology as response text, and leaves current_intent unset, so that the
\* returned command is null.
C6_RejectedChoiceLeavesIntentUnset ==
    RejectedChoice =>
      /\ Returned
      /\ steps = <<>> /\ calls = <<>>
      /\ pipeline_context.interaction_mode = None
      /\ pipeline_context.interaction_data = None
      /\ Get(final_result).response_text =
             Some("Sorry, I didn't understand that choice. Please try again.")
      /\ pipeline_context.current_intent = None
      /\ Get(final_result).command = None

\* ---------------------------------------------------------------------- C7
\* the extractor returned at least one validation request to the
\* current/last call
ExtractorAskedValidation ==
    ExtractorReturned /\ ExtractorCall.requests # <<>>

ExecutionFailed ==
    \/ \E i \in CallsOf("parameter_class") : calls[i].outcome = "ValidationError"
    \/ \E i \in CallsOf("function") : calls[i].outcome.kind \in {"raised", "wrong_type"}

ExecutionAttempt == calls[CHOOSE i \in CallsOf("parameter_class") : TRUE]

\* C9: when the executable raises, returns a non-instance of its result
\* class, or the parameters fail the parameter schema, the call still
\* invokes the text generator, with artifacts null, and its Result has
\* artifacts null and the resolved command and parameters.
C9_FailedExecutionYieldsNoArtifacts ==
    (Idle /\ ExecutionFailed) =>
      LET r == Get(final_result)
      IN  /\ Returned
          /\ r.artifacts = None
          /\ Cardinality(CallsOf("generate_text")) = 1
          /\ \A i \in CallsOf("generate_text") :
               /\ calls[i].artifacts = None
               /\ i = Len(calls)
          /\ ~IsNone(r.command)
          /\ r.command = ExecutionAttempt.command
          /\ r.parameters = ExecutionAttempt.parameters

C9_Witness ==
    /\ Returned
    /\ \E i \in CallsOf("function") : calls[i].outcome.kind = "wrong_type"
    /\ Invoked("generate_text")
    /\ Get(final_result).artifacts = None

\* --------------------------------------------------------------------- C10
\* the current/last call is fresh, its classifier returned a catalog
\* command with an executable at confidence >= 0.6 and its extractor
\* returned schema-valid parameters and no validation request
FreshExecutableCall ==
    /\ Fresh /\ ClassifierReturned
    /\ calls[1].intent \in CatalogIntents
    /\ Get(calls[1].intent) \in ExecutableCommands
    /\ calls[1].confidence >= 6
    /\ ExtractorReturned
    /\ ExtractorCall.requests = <<>>
    /\ SchemaValid(Get(calls[1].intent), ExtractorCall.parameters)

CollaboratorFailed ==
    \E i \in 1..Len(calls) :
        \/ /\ calls[i].fn \in {"classify_intent", "identify_parameters", "generate_text"}
           /\ calls[i].outcome = "raised"
        \/ /\ calls[i].fn = "function"
           /\ calls[i].outcome.kind = "raised"

\* C11: no exception raised by the classifier, the extractor, the text
\* generator or an executable propagates out of run: the call returns a
\* Result whose response text is a string.
C11_CollaboratorFailuresNeverPropagate ==
    CollaboratorFailed =>
      /\ IsNone(last_call.raised)
      /\ Idle =>
           /\ Returned
           /\ ~IsNone(Get(final_result).response_text)

C11_Witness ==
    /\ Returned
    /\ last_call.method = "run"
    /\ \E i \in CallsOf("function") : calls[i].outcome.kind = "raised"
    /\ \E i \in CallsOf("generate_text") : calls[i].outcome = "raised"
    /\ Get(final_result).response_text =
           Some("Sorry, I encountered an error generating a response.")

\* --------------------------------------------------------------------- C12
\* the classifier raised in the current/last call
ClassifierRaised ==
    /\ Len(calls) >= 1
    /\ calls[1].fn = "classify_intent"
    /\ calls[1].outcome = "raised"

\* C12: when the classifier raises, the call goes on with the unknown
\* intent and empty parameters to ResponseGeneration: the text generator
\* is invoked in that call.
C12_ClassifierFailureReachesResponseGeneration ==
    (Idle /\ ClassifierRaised) =>
      /\ Returned
      /\ steps = <<INTENT_CLASSIFICATION, RESPONSE_TEXT_GENERATION>>
      /\ Cardinality(CallsOf("generate_text")) = 1
      /\ \A i \in CallsOf("generate_text") :
           /\ calls[i].command = "unknown"
           /\ calls[i].parameters = EmptyParams

\* --------------------------------------------------------------------- C13
\* C13: a call made while interaction_mode is AwaitingFeedback, a mode
\* with no registered handler, fails with an error that propagates to the
\* caller: it returns no Result and handles nothing.
C13_MissingHandlerIsFatal ==
    ResumedMode(AWAITING_FEEDBACK) =>
      /\ Idle
      /\ ~IsNone(last_call.raised)
      /\ IsNone(final_result)
      /\ steps = <<>>
      /\ calls = <<>>

\* --------------------------------------------------------------------- C14
\* the current/last call resumed an interaction and its handler sent it on
\* to ParameterIdentification or CodeExecution
ResumedPastClassification ==
    /\ ~IsNone(resumed_context)
    /\ \/ steps = <<>> /\ goto_step \in {Some(PARAMETER_IDENTIFICATION),
                                         Some(CODE_EXECUTION)}
       \/ steps # <<>> /\ steps[1] \in {PARAMETER_IDENTIFICATION, CODE_EXECUTION}

\* C14: a call that begins with no pending interaction starts at
\* IntentClassification with current_intent null, current_parameters
\* empty, artifacts null and confidence 0, so that its Result carries only
\* what its own collaborators produced; a call that resumes an interaction
\* and goes on to ParameterIdentification or CodeExecution keeps the
\* fields the handler left.
C14_FreshCallResetsRunFields ==
    /\ (Fresh /\ ~Idle /\ steps = <<>>) =>
         /\ goto_step = Some(INTENT_CLASSIFICATION)
         /\ pipeline_context.current_intent = None
         /\ pipeline_context.current_parameters = EmptyParams
         /\ pipeline_context.artifacts = None
         /\ pipeline_context.confidence_score = 0
    /\ (Fresh /\ Returned) =>
         LET r == Get(final_result)
         IN  /\ r.command \in {None, Some("unknown"), calls[1].intent}
             /\ r.parameters = IF ExtractorReturned THEN ExtractorCall.parameters
                               ELSE EmptyParams
             /\ r.artifacts \in
                    {None} \cup { Some(calls[i].outcome.value) : i \in CallsOf("function") }
    /\ (ResumedPastClassification /\ steps = <<>>) =>
         LET before == Get(resumed_context)
         IN  /\ pipeline_context.artifacts = before.artifacts
             /\ ResumedMode(CLARIFYING_INTENT) =>
                  pipeline_context.current_parameters = before.current_parameters
             /\ ResumedMode(VALIDATING_PARAMETER) =>
                  /\ pipeline_context.current_intent = before.current_intent
                  /\ pipeline_context.confidence_score = before.confidence_score
                  /\ \A n \in ParamNames :
                       n # ResumedData.requests[1].parameter_name =>
                         pipeline_context.current_parameters[n]
                             = before.current_parameters[n]

C14_Witness ==
    /\ ResumedPastClassification /\ steps = <<>>
    /\ ResumedMode(VALIDATING_PARAMETER)
    /\ goto_step = Some(CODE_EXECUTION)
    /\ pipeline_context.current_intent = Some("test_command")
    /\ pipeline_context.current_parameters["param1"] = "x"
    /\ pipeline_context.confidence_score = 9

\* --------------------------------------------------------------------- C15
\* the last call was a reset that returned
ResetReturned == last_call.method = "reset" /\ IsNone(last_call.raised)

\* C15: a reset that succeeds, whatever interaction was pending, leaves a
\* fresh context (no interaction mode or data, no intent, no parameters)
\* and the trained flag false, and the run call after it is a fresh query
\* that starts at IntentClassification.
C15_ResetReplacesContext ==
    [][ /\ ResetReturned' =>
             /\ pipeline_context'.interaction_mode = None
             /\ pipeline_context'.interaction_data = None
             /\ pipeline_context'.current_intent = None
             /\ pipeline_context'.current_parameters = EmptyParams
             /\ is_trained' = FALSE
             /\ goto_step' = None
        /\ (ResetReturned /\ last_call'.method = "run") =>
             /\ goto_step' = Some(INTENT_CLASSIFICATION)
             /\ IsNone(resumed_context')
             /\ steps' = <<>> /\ calls' = <<>>
             /\ current_interactions' = <<>>
      ]_vars

C15_Witness ==
    /\ ResetReturned
    /\ last_call.found = Some(VALIDATING_PARAMETER)
    /\ pipeline_context.interaction_mode = None
    /\ pipeline_context.current_intent = None
    /\ ~is_trained

\* --------------------------------------------------------------------- C16
ConfigurationErrors == {Some("TypeError"), Some("ValueError")}

\* the last call was the constructor or reset
InitializeCalled == last_call.method \in {"__init__", "reset"}

\* the catalog entry has a description that is a text
HasDescription(cmd_def) ==
    cmd_def.description # Missing /\ cmd_def.description.type = "str"

\* the catalog entry has a parameter schema that is a schema class
HasSchemaClass(cmd_def) ==
    /\ cmd_def.parameter_class # Missing
    /\ cmd_def.parameter_class.type = "type"
    /\ cmd_def.parameter_class.repr \in {"DummyParams", "SimpleParams"}

\* the last call was given a catalog of entries, no history and no overrides
CatalogGiven ==
    /\ InitializeCalled
    /\ last_call.args[1].type = "dict"
    /\ \A k \in CommandMetadata : last_call.args[1].items[k].type = "dict"
    /\ last_call.args[2] = NoHistory
    /\ last_call.args[3] = NoOverrides

\* C16: construction (and reset) succeeds for every catalog whose commands
\* all have a description and a parameter schema class; when a command
\* lacks the description, lacks the parameter schema or has a parameter
\* schema that is no such class, it fails with a configuration error and
\* nothing is created or replaced.
C16_CatalogValidation ==
    [][ /\ ( /\ CatalogGiven'
             /\ \A k \in CommandMetadata :
                    /\ HasDescription(last_call'.args[1].items[k])
                    /\ HasSchemaClass(last_call'.args[1].items[k]) )
           => /\ IsNone(last_call'.raised)
              /\ pipeline_context' = NLUPipelineContext
              /\ command_metadata' = last_call'.args[1]
        /\ ( /\ CatalogGiven'
             /\ \E k \in CommandMetadata :
                    \/ last_call'.args[1].items[k].description = Missing
                    \/ ~HasSchemaClass(last_call'.args[1].items[k]) )
           => /\ last_call'.raised \in ConfigurationErrors
              /\ UNCHANGED <<pipeline_context, is_trained, config>>
      ]_vars

C16_Witness ==
    /\ last_call.method = "reset"
    /\ CatalogGiven
    /\ HasDescription(last_call.args[1].items["test_command"])
    /\ last_call.args[1].items["test_command"].parameter_class =
           PyObject("type", "NotBaseModel")
    /\ last_call.raised = Some("TypeError")
    /\ is_trained
    /\ command_metadata = valid_command_metadata

\* --------------------------------------------------------------------- C17
\* C17: a catalog entry whose description is the empty string makes
\* construction fail with a configuration error.
C17_EmptyDescriptionRejected ==
    ( /\ CatalogGiven
      /\ \E k \in CommandMetadata :
             last_call.args[1].items[k].description = PyObject("str", "") )
    => last_call.raised \in ConfigurationErrors

\* --------------------------------------------------------------------- C18
\* the value under a reserved key does not implement the key's interface
IllTypedComponent(overrides) ==
    \E key \in nlu_interface_keys :
        /\ overrides[key] # Missing
        /\ overrides[key].type # valid_interfaces[key]

\* the value under a command key is not a mapping with an executable_code
\* mapping that holds a callable function and a result_class that is a
\* schema class
IllTypedCommandOverride(value) ==
    /\ value.type # "<missing>"
    /\ ~ ( /\ value.type = "dict"
           /\ value.executable_code.type = "dict"
           /\ value.executable_code.function.type = "function"
           /\ value.executable_code.result_class.type = "type"
           /\ value.executable_code.result_class.repr = "DummyResult" )

IllTyped(overrides) ==
    IllTypedComponent(overrides) \/ IllTypedCommandOverride(overrides.test_command)

\* C18: construction fails with a configuration error when an override
\* under a reserved key does not implement its interface or a command
\* override is ill-typed; the overrides an engine holds are never
\* ill-typed.
C18_OverrideValidation ==
    /\ ( /\ InitializeCalled
         /\ last_call.args[3].type = "dict"
         /\ IllTyped(last_call.args[3]) )
       => /\ last_call.raised \in ConfigurationErrors
          /\ last_call.method = "__init__" => ~Constructed
    /\ Constructed => ~IllTyped(nlu_overrides)

C18_Witness ==
    /\ last_call.method = "__init__"
    /\ ~Constructed
    /\ last_call.args[3].type = "dict"
    /\ last_call.args[3].intent_detection =
           PyObject("IntentDetectionInterface", "mock_intent_detector")
    /\ last_call.args[3].test_command.executable_code.function = PyObject("int", "123")
    /\ last_call.args[3].test_command.executable_code.result_class =
           PyObject("type", "DummyResult")
    /\ last_call.raised = Some("ValueError")

\* --------------------------------------------------------------------- C19
\* the current/last call is fresh, its classifier returned a catalog
\* command without executable at confidence >= 0.6 and its extractor
\* returned no validation request
FreshPlainCall ==
    /\ Fresh /\ ClassifierReturned
    /\ calls[1].intent \in CatalogIntents
    /\ Get(calls[1].intent) \notin ExecutableCommands
    /\ calls[1].confidence >= 6
    /\ ExtractorReturned
    /\ ExtractorCall.requests = <<>>

\* C19: such a call invokes the classifier, the extractor and the text
\* generator once each, in that order, and returns the intent, the
\* extracted parameters, artifacts null, no log entry and the generator's
\* text, with no interaction pending.
C19_PlainCommandEndToEnd ==
    (Idle /\ FreshPlainCall) =>
      LET r == Get(final_result)
      IN  /\ Returned
          /\ Len(calls) = 3
          /\ calls[1].fn = "classify_intent"
          /\ calls[2].fn = "identify_parameters"
          /\ calls[3].fn = "generate_text"
          /\ r.command = calls[1].intent
          /\ r.parameters = calls[2].parameters
          /\ r.artifacts = None
          /\ r.interactions = <<>>
          /\ calls[3].outcome = "returned" => r.response_text = Some(calls[3].text)
          /\ pipeline_context.interaction_mode = None
          /\ pipeline_context.interaction_data = None

C19_Witness ==
    /\ Returned /\ FreshPlainCall
    /\ Get(final_result).command = Some("simple_command")
    /\ Get(final_result).parameters = [required_param |-> "1.5", param1 |-> "x"]
    /\ Get(final_result).response_text = Some("generated text")
    /\ Len(calls) = 3

\* --------------------------------------------------------------------- C20
\* the commands the caller excluded in the current/last call
Excluded ==
    IF IsNone(excluded_intents) THEN {}
    ELSE { Get(excluded_intents)[i] : i \in 1..Len(Get(excluded_intents)) }

\* C20: run hands the caller's excluded_intents to the classifier as it
\* got it, and the default classifier returns a catalog key that is not
\* excluded or "unknown", and "unknown" with confidence 0.0 when every
\* catalog command is excluded.
C20_DefaultClassifierHonoursExclusions ==
    \A i \in CallsOf("classify_intent") :
        /\ calls[i].excluded_intents = excluded_intents
        /\ calls[i].outcome = "returned"
        /\ calls[i].intent \notin { Some(e) : e \in Excluded }
        /\ calls[i].intent \in
               { Some(c) : c \in CommandMetadata \ Excluded } \cup { Some("unknown") }
        /\ CommandMetadata \subseteq Excluded =>
               /\ calls[i].intent = Some("unknown")
               /\ calls[i].confidence = 0

C20_Witness ==
    /\ ClassifierReturned
    /\ excluded_intents = Some(<<"test_command">>)
    /\ find_best_match(CommandKeys, user_query)[1] = Some("test_command")
    /\ calls[1].intent = Some("simple_command")
    /\ calls[1].confidence = 9

\* --------------------------------------------------------------------- C21
\* the current/last call ended without a confirmed intent: it left a
\* clarification pending, its reply to a clarification was rejected, or
\* its classifier named no intent
NoIntentConfirmed ==
    \/ pipeline_context.interaction_mode = Some(CLARIFYING_INTENT)
    \/ RejectedChoice
    \/ ClassifierReturned /\ IsNone(calls[1].intent)

\* C21: the command of the Result a run call returns is null exactly when
\* the call ended without a confirmed intent (clarification pending, or
\* left unresolved by a rejected reply); when an intent was confirmed (by
\* the classifier at 0.6 or more, by an accepted choice, or before the
\* validation that the call resumed) the command is that intent.
C21_CommandNullIffNoConfirmedIntent ==
    Returned =>
      LET r == Get(final_result)
      IN  /\ IsNone(r.command) <=> NoIntentConfirmed
          /\ (Fresh /\ ClassifierReturned /\ calls[1].confidence >= 6)
                => r.command = calls[1].intent
          /\ AcceptedChoice => r.command = Some(ChosenOption)
          /\ ResumedMode(VALIDATING_PARAMETER)
                => r.command = Get(resumed_context).current_intent

\* --------------------------------------------------------------------- C22
\* the classifier of the current/last call, a fresh one, resolved the
\* unknown sentinel
FreshUnknownIntent ==
    /\ Fresh /\ ClassifierReturned
    /\ calls[1].intent = Some("unknown")

\* C22: a fresh call whose classifier resolves the unknown sentinel, at
\* whatever confidence (the 0.1 and 0.0 of the default classifier
\* included), goes from IntentClassification straight to
\* ResponseGeneration: the extractor is not invoked, no interaction mode
\* is entered and the text generator is invoked with command "unknown".
C22_UnknownIntentSkipsToResponseGeneration ==
    (Idle /\ FreshUnknownIntent) =>
      /\ Returned
      /\ steps = <<INTENT_CLASSIFICATION, RESPONSE_TEXT_GENERATION>>
      /\ ~Invoked("identify_parameters")
      /\ IsNone(pipeline_context.interaction_mode)
      /\ Cardinality(CallsOf("generate_text")) = 1
      /\ \A i \in CallsOf("generate_text") : calls[i].command = "unknown"

\* --------------------------------------------------------------------- C23
\* the current/last call found ClarifyingIntent or ValidatingParameter
\* pending
ResumedInteraction ==
    ResumedMode(CLARIFYING_INTENT) \/ ResumedMode(VALIDATING_PARAMETER)

\* the prompt the earlier call returned when it entered that interaction
PromptShown ==
    get_initial_prompt(Get(Get(resumed_context).interaction_mode),
                       Get(resumed_context))

\* the log entry of the reply
ReplyEntry ==
    InteractionLogEntry(Get(Get(resumed_context).interaction_mode),
                        PromptShown, Some(Str(user_query)))

\* C23: a call that resumes a pending ClarifyingIntent or
\* ValidatingParameter logs, before its handler runs, exactly one entry
\* (stage = the pending mode, prompt = the prompt shown when the
\* interaction was entered, response = the text of this call), and that
\* entry is the first of the interactions of the Result.
C23_ResumedCallLogsReply ==
    ResumedInteraction =>
      /\ Len(current_interactions) >= 1
      /\ current_interactions[1] = ReplyEntry
      /\ Cardinality({ i \in 1..Len(current_interactions) :
                         ~IsNone(current_interactions[i].response) }) = 1
      /\ Returned =>
           /\ Len(Get(final_result).interactions) >= 1
           /\ Get(final_result).interactions[1] = ReplyEntry

\* --------------------------------------------------------------------- C24
\* entry is the log entry of the reply that the current/last call was given
IsReplyEntry(entry) ==
    /\ ~IsNone(resumed_context)
    /\ entry.stage = Get(Get(resumed_context).interaction_mode)
    /\ Some(entry.prompt) = PromptOf(Get(resumed_context).interaction_data)
    /\ entry.response = Some(Str(user_query))

\* entry is the log entry of the prompt that the current/last call returned
IsPromptEntry(entry) ==
    /\ Some(entry.stage) = pipeline_context.interaction_mode
    /\ Some(entry.prompt) = Get(final_result).response_text
    /\ IsNone(entry.response)

C25_RejectedReplyEndsTheClarification ==
    [][ /\ RejectedChoice =>
             /\ Returned
             /\ steps = <<>>
             /\ calls = <<>>
             /\ pipeline_context.interaction_mode = None
             /\ pipeline_context.interaction_data = None
        /\ (RejectedChoice /\ ~Idle') =>
             /\ resumed_context' = None
             /\ found_pending' = 0
             /\ goto_step' = Some(INTENT_CLASSIFICATION)
             /\ pipeline_context'.current_intent = None
             /\ pipeline_context'.confidence_score = 0
             /\ pipeline_context'.interaction_mode = None
             /\ calls' = <<>>
      ]_vars

C25_Witness ==
    /\ Returned
    /\ RejectedChoice
    /\ user_query = <<"a">>
    /\ ResumedData.options = <<"simple_command">>
    /\ Get(final_result).response_text =
           Some("Sorry, I didn't understand that choice. Please try again.")

\* --------------------------------------------------------------------- C26
\* the handler of the pending interaction has just returned to the
\* current/last call: no step of the loop has run since
HandlerJustReturned == ResumedInteraction /\ steps = <<>>

\* C26: whatever payload it finds and whatever the reply is,
\* ClarificationHandler.handle_input and ValidationHandler.handle_input
\* return a context with interaction_mode and interaction_data both
\* cleared: a handler never sets a mode, so none hands over to the other
\* handler's mode and interactions do not nest.
C26_HandlersClearTheInteraction ==
    HandlerJustReturned =>
      /\ pipeline_context.interaction_mode = None
      /\ pipeline_context.interaction_data = None
      /\ Idle \/ goto_step \in {Some(PARAMETER_IDENTIFICATION), Some(CODE_EXECUTION)}

C26_Witness ==
    /\ HandlerJustReturned
    /\ Returned
    /\ ResumedMode(VALIDATING_PARAMETER)
    /\ IsValidationData(Get(resumed_context).interaction_data)
    /\ Get(final_result).response_text =
           Some("Error: No validation request details found.")
    /\ pipeline_context.interaction_mode = None

StepRank(step) ==
    CASE step = INTENT_CLASSIFICATION -> 1
      [] step = PARAMETER_IDENTIFICATION -> 2
      [] step = CODE_EXECUTION -> 3
      [] step = RESPONSE_TEXT_GENERATION -> 4

\* the current/last call ended at an interaction: it returned the prompt of
\* the interaction it entered, or its handler returned for it
EndedAtInteraction ==
    \/ ~IsNone(pipeline_context.interaction_mode)
    \/ ResumedInteraction /\ steps = <<>>

\* C28: within one run call the steps executed are strictly increasing in
\* the order IntentClassification < ParameterIdentification <
\* CodeExecution < ResponseGeneration, so each runs at most once and none
\* hands control back to an earlier one, and the call ends either after
\* ResponseGeneration or at an interaction.
C28_StepsIncreaseUntilTheCallEnds ==
    /\ \A i, j \in 1..Len(steps) :
         i < j => StepRank(steps[i]) < StepRank(steps[j])
    /\ (~Idle /\ steps # <<>>) => StepRank(Get(goto_step)) > StepRank(LastStep)
    /\ Returned =>
         \/ steps # <<>> /\ LastStep = RESPONSE_TEXT_GENERATION
         \/ EndedAtInteraction

ExecutableStepRan ==
    /\ \E i \in 1..Len(steps) : steps[i] = CODE_EXECUTION
    /\ HasExecutable(pipeline_context.current_intent)

ExtractorRaised ==
    \E i \in CallsOf("identify_parameters") : calls[i].outcome = "raised"

\* the parameters the context held when ParameterIdentification began:
\* none on a fresh call, those of the pending interaction otherwise
ParametersBeforeExtraction ==
    IF IsNone(resumed_context) THEN EmptyParams
    ELSE Get(resumed_context).current_parameters

\* C31: when the extractor raises, the exception does not leave run,
\* CodeExecution is skipped (no schema instantiation, no executable), the
\* next step is ResponseGeneration, no interaction is entered, and the
\* Result carries the intent the extractor was called for and the
\* parameters the context held before the extraction.
C31_ExtractorFailureSkipsToResponseGeneration ==
    ExtractorRaised =>
        /\ IsNone(last_call.raised)
        /\ \A i \in 1..Len(steps) : steps[i] # CODE_EXECUTION
        /\ ~Invoked("parameter_class")
        /\ ~Invoked("function")
        /\ IsNone(pipeline_context.interaction_mode)
        /\ pipeline_context.current_parameters = ParametersBeforeExtraction
        /\ ~Idle => goto_step = Some(RESPONSE_TEXT_GENERATION)
        /\ Idle =>
             /\ Returned
             /\ LastStep = RESPONSE_TEXT_GENERATION
             /\ steps[Len(steps) - 1] = PARAMETER_IDENTIFICATION
             /\ Invoked("generate_text")
             /\ Get(final_result).command = ExtractorCall.intent
             /\ Get(final_result).parameters = ParametersBeforeExtraction

C31_Witness ==
    /\ Returned
    /\ Fresh
    /\ ExtractorRaised
    /\ Get(final_result).command = Some("test_command")
    /\ Get(final_result).parameters = EmptyParams
    /\ Get(final_result).response_text = Some("generated text")

\* --------------------------------------------------------------------- C32
\* the text generator raised in the current/last call
GeneratorRaised ==
    \E i \in CallsOf("generate_text") : calls[i].outcome = "raised"

GeneratorCall == calls[CHOOSE i \in CallsOf("generate_text") : TRUE]

IdentificationReached ==
    \E i \in 1..Len(steps) : steps[i] = PARAMETER_IDENTIFICATION

\* C33: the extractor is only ever called for an intent that is a key of
\* the catalog (so neither empty nor "unknown"); when
\* ParameterIdentification is reached with any other intent, also after a
\* clarification reply that chose it, neither the extractor nor the
\* executable is invoked, no validation is entered and the next step is
\* ResponseGeneration.
C33_ExtractorOnlyForCatalogIntents ==
    /\ \A i \in CallsOf("identify_parameters") : calls[i].intent \in CatalogIntents
    /\ ( /\ IdentificationReached
         /\ pipeline_context.current_intent \notin CatalogIntents )
       => /\ ~Invoked("identify_parameters")
          /\ ~Invoked("parameter_class")
          /\ ~Invoked("function")
          /\ \A i \in 1..Len(steps) : steps[i] # CODE_EXECUTION
          /\ IsNone(pipeline_context.interaction_mode)
          /\ ~Idle => goto_step = Some(RESPONSE_TEXT_GENERATION)
          /\ Idle => /\ Returned
                     /\ LastStep = RESPONSE_TEXT_GENERATION
                     /\ steps[Len(steps) - 1] = PARAMETER_IDENTIFICATION

C33_Witness ==
    /\ Returned
    /\ AcceptedChoice
    /\ ChosenOption = "unknown"
    /\ pipeline_context.current_intent = Some("unknown")
    /\ steps = <<PARAMETER_IDENTIFICATION, RESPONSE_TEXT_GENERATION>>
    /\ ~Invoked("identify_parameters")
    /\ Invoked("generate_text")

\* --------------------------------------------------------------------- C34
\* the executable was invoked in the current/last call and returned the
\* instance a of its result class
ExecutableReturned(a) ==
    \E i \in CallsOf("function") :
        /\ calls[i].outcome.kind = "instance"
        /\ a = Some(calls[i].outcome.value)

\* C34: the artifacts of a Result, and the artifacts handed to the text
\* generator, are non-null only if the executable was invoked in that
\* same call and returned them as an instance of its result class; what
\* an earlier call produced is never seen again.
C34_ArtifactsAreOfThisCall ==
    /\ (Returned /\ ~IsNone(Get(final_result).artifacts))
       => ExecutableReturned(Get(final_result).artifacts)
    /\ \A i \in CallsOf("generate_text") :
           ~IsNone(calls[i].artifacts) => ExecutableReturned(calls[i].artifacts)
    /\ (Idle /\ ~IsNone(pipeline_context.interaction_mode))
       => IsNone(pipeline_context.artifacts)

C34_Witness ==
    /\ Returned
    /\ AcceptedChoice
    /\ Get(final_result).artifacts = Some("DummyResult_2")
    /\ ExecutableReturned(Some("DummyResult_2"))
    /\ GeneratorCall.artifacts = Some("DummyResult_2")

\* --------------------------------------------------------------------- C35
\* the current/last call resumed a validation with more than one request
ResumedValidationOfMany ==
    /\ ResumedMode(VALIDATING_PARAMETER)
    /\ IsValidationData(Get(resumed_context).interaction_data)
    /\ Len(ResumedData.requests) > 1

\* the parameters the requests after the first one name, the one of the
\* first request left out
LaterRequested ==
    { ResumedData.requests[i].parameter_name : i \in 2..Len(ResumedData.requests) }
    \ { ResumedData.requests[1].parameter_name }

PayloadMismatch(mode, ctx) ==
    \/ mode = CLARIFYING_INTENT /\ ~IsClarificationData(ctx.interaction_data)
    \/ mode = VALIDATING_PARAMETER /\ ~IsValidationData(ctx.interaction_data)

\* the current/last call found an interaction pending with such data
ResumedPayloadMismatch ==
    /\ ResumedInteraction
    /\ PayloadMismatch(Get(Get(resumed_context).interaction_mode),
                       Get(resumed_context))

\* the error text of the handler of mode
GenericError(mode) ==
    IF mode = CLARIFYING_INTENT
    THEN "Error: Invalid interaction data for clarification."
    ELSE "Error: Invalid interaction data for validation."

\* the apology of the handler of mode
PromptApology(mode) ==
    IF mode = CLARIFYING_INTENT
    THEN "Sorry, I got confused. Could you please rephrase?"
    ELSE "Sorry, I need more information. Could you please rephrase?"

C36_WitnessPrompt ==
    /\ last_call.method = "get_initial_prompt"
    /\ last_call.args[1] = VALIDATING_PARAMETER
    /\ IsClarificationData(last_call.args[2].interaction_data)
    /\ last_call.args[3] = "Sorry, I need more information. Could you please rephrase?"

\* --------------------------------------------------------------------- C37
\* the last public call was a reset that raised
ResetRaised == last_call.method = "reset" /\ ~IsNone(last_call.raised)

UnrecognizedKeys(overrides) ==
    { k \in { OverrideKeys[i] : i \in DOMAIN OverrideKeys }
            \ (nlu_interface_keys \cup CommandMetadata) :
        overrides[k].type # "<missing>" }

\* C38: construction and reset fail with a configuration error when the
\* overrides hold an entry under a key that is neither a reserved
\* strategy name nor the name of a command of the catalog.
C38_UnrecognizedOverrideKeyRejected ==
    ( /\ InitializeCalled
      /\ last_call.args[3].type = "dict"
      /\ UnrecognizedKeys(last_call.args[3]) # {} )
    => last_call.raised \in ConfigurationErrors

\* --------------------------------------------------------------------- C40
\* the current/last call returned after ResponseGeneration for a command
\* of the catalog or for the unknown intent, with no text generator
\* override configured
DefaultGeneratorCase ==
    /\ Returned
    /\ nlu_overrides.text_generation = Missing
    /\ steps # <<>>
    /\ LastStep = RESPONSE_TEXT_GENERATION
    /\ IntentOrUnknown(pipeline_context) \in CommandMetadata \cup {"unknown"}

\* C40: with no text_generation override, the response text of a call
\* that went through ResponseGeneration is the text DefaultTextGeneration
\* writes for the intent, the parameters and the artifacts of the Result
\* (its did-not-understand message for the unknown intent), and is not
\* the apology for a failed generator call.
C40_DefaultGeneratorAnswers ==
    DefaultGeneratorCase =>
        /\ Get(final_result).response_text =
               Some(DefaultTextGeneration_generate_text(
                        IntentOrUnknown(pipeline_context),
                        Get(final_result).parameters,
                        Get(final_result).artifacts))
        /\ Get(final_result).response_text #
               Some("Sorry, I encountered an error generating a response.")

====
